---- MODULE Spec2Model ----
(***************************************************************************)
(* homebridge-ai-plugin: the command pipeline of HomebridgeAIPlatform      *)
(* (src/src/index.ts) and the AIService it uses (src/unnamed/part_001).    *)
(*                                                                         *)
(* A JavaScript string is a sequence of one-character strings, so that     *)
(* toLowerCase, includes and the temperature pattern are computed on the   *)
(* characters.  A JavaScript value is a record [t, n, s]: t is its type,   *)
(* n its number (1/0 for true/false) and s its characters.                 *)
(***************************************************************************)
EXTENDS Integers, Sequences, FiniteSets, TLC

(* ----------------------------- bounds --------------------------------- *)
\* how many fragments an action text of the value-derivation probe is made of
MaxFrags == 2
\* how many accessories the inventory of the direct calls holds
MaxAccessories == 2
\* how many accessories Homebridge restores from its cache before the launch
MaxRestored == 1
\* how many commands are posted to the HTTP endpoint
MaxCommands == 1

(* --------------------------- JavaScript values ------------------------ *)
Undefined == [t |-> "undefined", n |-> 0, s |-> <<>>]
Null == [t |-> "null", n |-> 0, s |-> <<>>]
JSTrue == [t |-> "boolean", n |-> 1, s |-> <<>>]
JSFalse == [t |-> "boolean", n |-> 0, s |-> <<>>]
JSNum(k) == [t |-> "number", n |-> k, s |-> <<>>]
JSStr(chars) == [t |-> "string", n |-> 0, s |-> chars]

(* ----------------------------- strings -------------------------------- *)
UpperCase == <<"A", "B", "C", "D", "E", "F", "G", "H", "I", "J", "K", "L", "M", "N", "O", "P", "Q", "R", "S", "T", "U", "V", "W", "X", "Y", "Z">>
LowerCase == <<"a", "b", "c", "d", "e", "f", "g", "h", "i", "j", "k", "l", "m", "n", "o", "p", "q", "r", "s", "t", "u", "v", "w", "x", "y", "z">>
Digits == <<"0", "1", "2", "3", "4", "5", "6", "7", "8", "9">>
WhiteSpace == {" ", "\n", "\t"}

\* the lower-case letter of every upper-case letter
LowerOf == [c \in {UpperCase[i] : i \in 1..26} |-> LowerCase[CHOOSE i \in 1..26 : UpperCase[i] = c]]

LowerChar(c) == IF c \in DOMAIN LowerOf THEN LowerOf[c] ELSE c

\* String.prototype.toLowerCase
toLowerCase(str) == [i \in 1..Len(str) |-> LowerChar(str[i])]

\* does pat occur in str at position i (1-based)
OccursAt(str, pat, i) ==
    /\ i >= 1
    /\ i + Len(pat) - 1 <= Len(str)
    /\ \A k \in 1..Len(pat) : str[i + k - 1] = pat[k]

\* String.prototype.includes: pat occurs anywhere in str
includes(str, pat) ==
    \E i \in 1..(Len(str) + 1) : OccursAt(str, pat, i)

IsDigit(c) == \E d \in 1..10 : Digits[d] = c
DigitValue(c) == (CHOOSE d \in 1..10 : Digits[d] = c) - 1

\* the end of the longest run of digits of str that starts at position i
RECURSIVE DigitRunEnd(_, _)
DigitRunEnd(str, i) ==
    IF i + 1 <= Len(str) /\ IsDigit(str[i + 1]) THEN DigitRunEnd(str, i + 1) ELSE i

\* parseInt(digits, 10) of a non-empty string of decimal digits
RECURSIVE parseInt(_)
parseInt(digits) ==
    IF Len(digits) = 0 THEN 0
    ELSE 10 * parseInt(SubSeq(digits, 1, Len(digits) - 1)) + DigitValue(digits[Len(digits)])

\* the regular expression's `.*` between positions from and to (exclusive):
\* any characters but line terminators
DotStar(str, from, to) == \A k \in from..(to - 1) : str[k] /= "\n"

T_set == <<"s", "e", "t">>
T_temperature == <<"t", "e", "m", "p", "e", "r", "a", "t", "u", "r", "e">>
T_to == <<"t", "o", " ">>

\* all the ways /set.*temperature.*to (\d+)/ can lie in str: <<i, j, k>> are
\* where "set", "temperature" and "to " start
TemperatureMatches(str) ==
    LET Sets == {i \in 1..Len(str) : OccursAt(str, T_set, i)}
        Temps(i) == {j \in (i + Len(T_set))..Len(str) :
                        OccursAt(str, T_temperature, j) /\ DotStar(str, i + Len(T_set), j)}
        Tos(j) == {k \in (j + Len(T_temperature))..Len(str) :
                        /\ OccursAt(str, T_to, k)
                        /\ DotStar(str, j + Len(T_temperature), k)
                        /\ k + Len(T_to) <= Len(str)
                        /\ IsDigit(str[k + Len(T_to)])}
    IN UNION {UNION {{<<i, j, k>> : k \in Tos(j)} : j \in Temps(i)} : i \in Sets}

\* actionLower.match(/set.*temperature.*to (\d+)/): the leftmost match, each
\* `.*` and the `\d+` as long as they can be; the result is matches[1], or
\* <<>> when there is no match
TemperatureMatch(str) ==
    LET ms == TemperatureMatches(str) IN
    IF ms = {} THEN <<>>
    ELSE LET i == CHOOSE x \in {m[1] : m \in ms} : \A y \in {m[1] : m \in ms} : x <= y
             js == {m[2] : m \in {mm \in ms : mm[1] = i}}
             j == CHOOSE x \in js : \A y \in js : x >= y
             ks == {m[3] : m \in {mm \in ms : mm[1] = i /\ mm[2] = j}}
             k == CHOOSE x \in ks : \A y \in ks : x >= y
             first == k + Len(T_to)
         IN SubSeq(str, first, DigitRunEnd(str, first))

(* ------------------------ characteristic kinds ------------------------ *)
\* Characteristic.On.UUID, Characteristic.TargetTemperature.UUID and one more
\* characteristic the plugin has no rule for
UUID_On == "On"
UUID_TargetTemperature == "TargetTemperature"
UUID_Brightness == "Brightness"
CharacteristicUUIDs == {UUID_On, UUID_TargetTemperature, UUID_Brightness}

T_turn_on == <<"t", "u", "r", "n", " ", "o", "n">>
T_switch_on == <<"s", "w", "i", "t", "c", "h", " ", "o", "n">>
T_turn_off == <<"t", "u", "r", "n", " ", "o", "f", "f">>
T_switch_off == <<"s", "w", "i", "t", "c", "h", " ", "o", "f", "f">>

determineValueForAction_OffFirst(action, uuid) ==
    LET actionLower == toLowerCase(action) IN
    IF uuid = UUID_On /\ (includes(actionLower, T_turn_off) \/ includes(actionLower, T_switch_off))
    THEN JSFalse
    ELSE IF uuid = UUID_On /\ (includes(actionLower, T_turn_on) \/ includes(actionLower, T_switch_on))
    THEN JSTrue
    ELSE IF uuid = UUID_TargetTemperature /\ TemperatureMatch(actionLower) /= <<>>
    THEN JSNum(parseInt(TemperatureMatch(actionLower)))
    ELSE Null

determineValueForAction_AnyKind(action, uuid) ==
    LET actionLower == toLowerCase(action) IN
    IF includes(actionLower, T_turn_on) \/ includes(actionLower, T_switch_on)
    THEN JSTrue
    ELSE IF includes(actionLower, T_turn_off) \/ includes(actionLower, T_switch_off)
    THEN JSFalse
    ELSE IF TemperatureMatch(actionLower) /= <<>>
    THEN JSNum(parseInt(TemperatureMatch(actionLower)))
    ELSE Null

\* determineValueForAction(action, characteristic), action a string
determineValueForAction(action, uuid) ==
    LET actionLower == toLowerCase(action) IN
    IF uuid = UUID_On /\ (includes(actionLower, T_turn_on) \/ includes(actionLower, T_switch_on))
    THEN JSTrue
    ELSE IF uuid = UUID_On /\ (includes(actionLower, T_turn_off) \/ includes(actionLower, T_switch_off))
    THEN JSFalse
    ELSE IF uuid = UUID_TargetTemperature /\ TemperatureMatch(actionLower) /= <<>>
    THEN JSNum(parseInt(TemperatureMatch(actionLower)))
    ELSE Null

(* ----------------------------- inventory ------------------------------ *)
\* A service has the class getCharacteristicForService tests it for
\* (Lightbulb, Switch, Thermostat, Fan, Outlet) or another one
\* (AccessoryInformation).
N_Den == <<"D", "e", "n">>
N_den == <<"d", "e", "n">>
N_DEN == <<"D", "E", "N">>
N_Hall == <<"H", "a", "l", "l">>
N_hall == <<"h", "a", "l", "l">>
N_Heat == <<"H", "e", "a", "t">>
N_HEAT == <<"H", "E", "A", "T">>
N_Porch == <<"P", "o", "r", "c", "h">>
N_Light == <<"L", "i", "g", "h", "t">>
N_Lamp == <<"L", "a", "m", "p">>
N_Garage == <<"G", "a", "r", "a", "g", "e">>

\* a service and the value of the characteristic the plugin controls on it
Svc(name, type, value) == [displayName |-> name, type |-> type, value |-> value]

\* the accessories Homebridge may hold in its cache, each with its UUID
Catalogue ==
    << [UUID |-> 1, displayName |-> N_Den,
        services |-> << Svc(N_Den, "Lightbulb", JSFalse) >>],
       [UUID |-> 2, displayName |-> N_Hall,
        services |-> << Svc(N_Light, "Lightbulb", JSFalse), Svc(N_hall, "Fan", JSFalse) >>],
       [UUID |-> 3, displayName |-> N_Heat,
        services |-> << Svc(N_HEAT, "Thermostat", JSNum(20)), Svc(N_Heat, "Switch", JSFalse) >>],
       [UUID |-> 4, displayName |-> N_den,
        services |-> << Svc(N_DEN, "AccessoryInformation", Undefined), Svc(N_den, "Outlet", JSFalse) >>],
       [UUID |-> 5, displayName |-> N_Porch,
        services |-> << Svc(N_Lamp, "Lightbulb", JSFalse) >>] >>

\* Array.prototype.find: the first of the matching indexes, 0 for undefined
FindIndex(matching) ==
    IF matching = {} THEN 0
    ELSE CHOOSE i \in matching : \A k \in matching : i <= k

findAccessoryByName_CaseSensitive(accs, name) ==
    FindIndex({i \in 1..Len(accs) : accs[i].displayName = name})

\* findAccessoryByName(name), name a string
findAccessoryByName(accs, name) ==
    FindIndex({i \in 1..Len(accs) : toLowerCase(accs[i].displayName) = toLowerCase(name)})

\* accessory.services.find((s) => s.displayName.toLowerCase() === device.toLowerCase())
findService(services, device) ==
    FindIndex({i \in 1..Len(services) :
        toLowerCase(services[i].displayName) = toLowerCase(device)})

NoCharacteristic == "none"

\* getCharacteristicForService(service): the UUID of the characteristic it
\* returns, NoCharacteristic for undefined
getCharacteristicForService(type) ==
    IF type = "Lightbulb" \/ type = "Switch" THEN UUID_On
    ELSE IF type = "Thermostat" THEN UUID_TargetTemperature
    ELSE IF type = "Fan" THEN UUID_On
    ELSE IF type = "Outlet" THEN UUID_On
    ELSE NoCharacteristic

(* --------------------------- executeAction ---------------------------- *)
\* what a call of executeAction came to: the message it logged, "Applied"
\* when it set a value, "TypeError" when it threw on an ill-typed argument
DispatchFailures == {"DeviceNotFound", "ServiceNotFound", "CharacteristicNotFound", "ValueUndetermined"}

\* the value JSON.parse returned, as executeAction reads it: the type of the
\* value and its properties action and device (Undefined when absent)
ActionData(t, action, device) == [t |-> t, action |-> action, device |-> device]
Intent(action, device) == ActionData("object", JSStr(action), JSStr(device))
IsIntent(data) == data.t = "object" /\ data.action.t = "string" /\ data.device.t = "string"

Done(outcome, accs, target, value) ==
    [outcome |-> outcome, accessories |-> accs, target |-> target, value |-> value]

\* characteristic.setValue(value) on service si of accessory ai
setValue_Toggles(accs, ai, si, value) ==
    [accs EXCEPT ![ai].services[si].value =
        IF value.t = "boolean" /\ @ = value THEN [value EXCEPT !.n = 1 - value.n] ELSE value]

setValue(accs, ai, si, value) ==
    [accs EXCEPT ![ai].services[si].value = value]

executeAction_WriteUndetermined(accs, actionData) ==
    IF actionData.t \in {"null", "undefined"} THEN Done("TypeError", accs, <<0, 0>>, Null)
    ELSE IF accs = <<>> THEN Done("DeviceNotFound", accs, <<0, 0>>, Null)
    ELSE IF actionData.device.t /= "string" THEN Done("TypeError", accs, <<0, 0>>, Null)
    ELSE LET ai == findAccessoryByName(accs, actionData.device.s) IN
    IF ai = 0 THEN Done("DeviceNotFound", accs, <<0, 0>>, Null)
    ELSE LET si == findService(accs[ai].services, actionData.device.s) IN
    IF si = 0 THEN Done("ServiceNotFound", accs, <<ai, 0>>, Null)
    ELSE LET uuid == getCharacteristicForService(accs[ai].services[si].type) IN
    IF uuid = NoCharacteristic THEN Done("CharacteristicNotFound", accs, <<ai, si>>, Null)
    ELSE IF actionData.action.t /= "string" THEN Done("TypeError", accs, <<ai, si>>, Null)
    ELSE LET value == determineValueForAction(actionData.action.s, uuid) IN
    IF value = Null THEN Done("ValueUndetermined", setValue(accs, ai, si, Null), <<ai, si>>, Null)
    ELSE Done("Applied", setValue(accs, ai, si, value), <<ai, si>>, value)

\* executeAction(actionData) on the accessories accs
executeAction(accs, actionData) ==
    \* const { action, device } = actionData
    IF actionData.t \in {"null", "undefined"} THEN Done("TypeError", accs, <<0, 0>>, Null)
    \* find calls back once per accessory: name.toLowerCase() throws on a non-string
    ELSE IF accs = <<>> THEN Done("DeviceNotFound", accs, <<0, 0>>, Null)
    ELSE IF actionData.device.t /= "string" THEN Done("TypeError", accs, <<0, 0>>, Null)
    ELSE LET ai == findAccessoryByName(accs, actionData.device.s) IN
    IF ai = 0 THEN Done("DeviceNotFound", accs, <<0, 0>>, Null)
    ELSE LET si == findService(accs[ai].services, actionData.device.s) IN
    IF si = 0 THEN Done("ServiceNotFound", accs, <<ai, 0>>, Null)
    ELSE LET uuid == getCharacteristicForService(accs[ai].services[si].type) IN
    IF uuid = NoCharacteristic THEN Done("CharacteristicNotFound", accs, <<ai, si>>, Null)
    \* action.toLowerCase() throws on a non-string
    ELSE IF actionData.action.t /= "string" THEN Done("TypeError", accs, <<ai, si>>, Null)
    ELSE LET value == determineValueForAction(actionData.action.s, uuid) IN
    IF value = Null THEN Done("ValueUndetermined", accs, <<ai, si>>, Null)
    ELSE Done("Applied", setValue(accs, ai, si, value), <<ai, si>>, value)

(* ------------------------- completion replies ------------------------- *)
\* The text of a completion is a sequence of JSON tokens [k, s, n]: k the kind
\* of token, s the characters of a string and n the value of a number.  A
\* "word" is text that is no JSON token (Sure, here, ...).
Tok(k) == [k |-> k, s |-> <<>>, n |-> 0]
TStr(chars) == [k |-> "string", s |-> chars, n |-> 0]
TNum(v) == [k |-> "number", s |-> <<>>, n |-> v]
ScalarKinds == {"string", "number", "null"}

K_action == <<"a", "c", "t", "i", "o", "n">>
K_device == <<"d", "e", "v", "i", "c", "e">>

\* String.prototype.trim on a text: the white space at its two ends goes
RECURSIVE trim(_)
trim(text) ==
    IF text = <<>> THEN text
    ELSE IF Head(text).k = "ws" THEN trim(Tail(text))
    ELSE IF text[Len(text)].k = "ws" THEN trim(SubSeq(text, 1, Len(text) - 1))
    ELSE text

\* the JavaScript value of a scalar token
ScalarValue(tok) ==
    IF tok.k = "string" THEN JSStr(tok.s)
    ELSE IF tok.k = "number" THEN JSNum(tok.n)
    ELSE Null

\* the members of an object between its braces: key : value (, key : value)*
MembersOk(inner) ==
    \/ inner = <<>>
    \/ /\ Len(inner) % 4 = 3
       /\ \A i \in 1..Len(inner) :
            CASE i % 4 = 1 -> inner[i].k = "string"
              [] i % 4 = 2 -> inner[i].k = "colon"
              [] i % 4 = 3 -> inner[i].k \in ScalarKinds
              [] OTHER -> inner[i].k = "comma"

\* the property key of the object: its last member of that name
Property(inner, key) ==
    LET at == {i \in 1..Len(inner) : i % 4 = 1 /\ inner[i].s = key} IN
    IF at = {} THEN Undefined
    ELSE ScalarValue(inner[(CHOOSE i \in at : \A k \in at : i >= k) + 2])

\* JSON.parse(text): whether it returned, and the value as executeAction reads
\* it.  White space between tokens is skipped; objects hold scalars.
JSONParse(text) ==
    LET toks == SelectSeq(text, LAMBDA tok : tok.k /= "ws")
        inner == IF Len(toks) >= 2 THEN SubSeq(toks, 2, Len(toks) - 1) ELSE <<>>
    IN IF Len(toks) = 1 /\ toks[1].k \in ScalarKinds
       THEN [ok |-> TRUE, data |-> ActionData(ScalarValue(toks[1]).t, Undefined, Undefined)]
       ELSE IF Len(toks) >= 2 /\ toks[1].k = "lbrace" /\ toks[Len(toks)].k = "rbrace" /\ MembersOk(inner)
       THEN [ok |-> TRUE, data |-> ActionData("object", Property(inner, K_action), Property(inner, K_device))]
       ELSE [ok |-> FALSE, data |-> ActionData("undefined", Undefined, Undefined)]

\* how the call of createCompletion ends: it rejects (with the HTTP status of
\* the service), or it resolves with an envelope that may hold a text
Rejects(status) == [kind |-> "reject", status |-> status, hasText |-> FALSE, text |-> <<>>]
Resolves(text) == [kind |-> "resolve", status |-> 200, hasText |-> TRUE, text |-> text]
NoChoices == [kind |-> "resolve", status |-> 200, hasText |-> FALSE, text |-> <<>>]
NoReply == [kind |-> "none", status |-> 0, hasText |-> FALSE, text |-> <<>>]

\* {"action": <action>, "device": <device>} as the service writes it
IntentText(action, device) ==
    << Tok("lbrace"), TStr(K_action), Tok("colon"), action, Tok("comma"), Tok("ws"),
       TStr(K_device), Tok("colon"), device, Tok("rbrace") >>

Replies ==
    { Rejects(429), NoChoices,
      Resolves(<< Tok("word"), Tok("ws"), Tok("lbrace"), Tok("rbrace") >>),
      Resolves(<< Tok("null") >>),
      Resolves(<< Tok("ws"), Tok("lbrace"), TStr(K_action), Tok("colon"), TStr(T_turn_on), Tok("rbrace") >>),
      Resolves(IntentText(TNum(1), TStr(N_den))),
      Resolves(IntentText(TStr(T_turn_on), TStr(N_DEN))),
      Resolves(IntentText(TStr(T_turn_off), TStr(N_Heat))) }

(* ------------------------------ AIService ----------------------------- *)
Threw(error) == [threw |-> TRUE, error |-> error, data |-> ActionData("undefined", Undefined, Undefined)]
Returned(data) == [threw |-> FALSE, error |-> "", data |-> data]

\* processCommand from the reply of createCompletion on: what the promise it
\* returned settles to
processCommand(reply) ==
    IF reply.kind = "reject" THEN Threw("RemoteCallFailed")
    ELSE LET result == IF reply.hasText THEN trim(reply.text) ELSE <<>> IN
    IF result = <<>> THEN Threw("NoResponse")
    ELSE LET parsed == JSONParse(result) IN
    IF parsed.ok THEN Returned(parsed.data) ELSE Threw("MalformedIntent")

(* ------------------------------ commands ------------------------------ *)
C_empty == <<>>
C_blank == <<" ", "\t">>
C_den == <<"d", "e", "n", " ", "o", "f", "f">>
\* the command startAIService sends once, five seconds after the launch
C_lights == <<"P", "l", "e", "a", "s", "e", " ", "t", "u", "r", "n", " ", "o", "n", " ", "t", "h", "e", " ", "l", "i", "v", "i", "n", "g", " ", "r", "o", "o", "m", " ", "l", "i", "g", "h", "t", "s">>
Commands == {C_empty, C_blank, C_den}

\* empty or white space only
IsBlank(command) == \A i \in 1..Len(command) : command[i] \in WhiteSpace

\* the action texts and device names of the direct calls of executeAction
A_TurnOn == <<"T", "u", "r", "n", " ", "O", "N">>
A_set72 == <<"s", "e", "t", " ", "t", "e", "m", "p", "e", "r", "a", "t", "u", "r", "e", " ", "t", "o", " ", "7", "2">>
A_setOn == <<"S", "e", "t", " ", "t", "h", "e", " ", "T", "e", "m", "p", "e", "r", "a", "t", "u", "r", "e", " ", "t", "o", " ", "7", ",", " ", "t", "u", "r", "n", " ", "o", "n">>
A_dim == <<"d", "i", "m">>
ActionTexts == {T_turn_on, A_TurnOn, T_switch_off, A_set72, A_setOn, A_dim}
DeviceTexts == {N_DEN, N_hall, N_HEAT, N_Porch, N_Garage}
Intents == {Intent(a, d) : a \in ActionTexts, d \in DeviceTexts}

\* the action texts of the value-derivation probe: up to MaxFrags of these
\* fragments, one after the other
F_turn_o == <<"t", "u", "r", "n", " ", "o">>
F_n == <<"n">>
F_ff == <<"f", "f">>
F_re == <<"r", "e">>
F_Off == <<"T", "u", "r", "n", " ", "O", "F", "F">>
F_SwOn == <<"S", "w", "i", "t", "c", "h", " ", "O", "n">>
F_swoff == <<"s", "w", "i", "t", "c", "h", " ", "o", "f", "f">>
F_set == <<"s", "e", "t", " ", "t", "h", "e", " ", "t", "e", "m", "p", "e", "r", "a", "t", "u", "r", "e">>
F_to7 == <<" ", "t", "o", " ", "7">>
F_2 == <<"2">>
F_nl == <<"\n">>
Fragments == <<F_turn_o, F_n, F_ff, F_re, F_Off, F_SwOn, F_swoff, A_dim, F_set, F_to7, F_2, F_nl>>

RECURSIVE Flatten(_)
Flatten(ixs) == IF ixs = <<>> THEN <<>> ELSE Fragments[Head(ixs)] \o Flatten(Tail(ixs))
ProbeTexts == {Flatten(ixs) : ixs \in UNION {[1..n -> 1..Len(Fragments)] : n \in 0..MaxFrags}}

(* ------------------------------- state -------------------------------- *)
VARIABLES
    accessories,  \* this.accessories: the restored accessories, in order
    launched,     \* didFinishLaunching has fired: aiService and the HTTP server exist
    devicesInfo,  \* aiService.devicesInfo: the snapshot the prompt embeds
    cmd,          \* per command: where handleUserCommand stands and what it came to
    lastCall,     \* the last direct call of executeAction, and the one before it
    probe         \* one application of determineValueForAction

vars == <<accessories, launched, devicesInfo, cmd, lastCall, probe>>

\* command 0 is the one the timer of startAIService sends, the others are
\* the requests of POST /command in the order they arrive
Timer == 0
Slots == 0..MaxCommands
Requests == 1..MaxCommands

Idle == [pc |-> "idle", command |-> <<>>, hung |-> FALSE, prompt |-> <<>>,
         remoteCalls |-> 0, execCalls |-> 0, reply |-> NoReply, outcome |-> "", status |-> 0]

\* before: whether the call before this one had the same argument, and if
\* so what it came to
NoBefore == [same |-> FALSE, outcome |-> "", value |-> Null]
NoCall == [actionData |-> ActionData("undefined", Undefined, Undefined), outcome |-> "",
           target |-> <<0, 0>>, value |-> Null, before |-> NoBefore]
NoProbe == [action |-> <<>>, uuid |-> UUID_On, value |-> Undefined, applied |-> FALSE]

Init ==
    /\ accessories = <<>>
    /\ launched = FALSE
    /\ devicesInfo = <<>>
    /\ cmd = [c \in Slots |-> Idle]
    /\ lastCall = NoCall
    /\ probe = NoProbe

\* accessory.context.deviceInfo of configureAccessory
deviceInfo(accessory) ==
    [name |-> accessory.displayName,
     services |-> [i \in 1..Len(accessory.services) |->
                     [serviceName |-> accessory.services[i].displayName,
                      serviceType |-> accessory.services[i].type]]]

\* getAllDevicesInfo()
getAllDevicesInfo(accs) == [i \in 1..Len(accs) |-> deviceInfo(accs[i])]

\* configureAccessory(accessory): Homebridge restores a cached accessory,
\* each once, before it fires didFinishLaunching
configureAccessory(k) ==
    /\ ~launched
    /\ Len(accessories) < MaxRestored
    /\ \A i \in 1..Len(accessories) : accessories[i].UUID /= Catalogue[k].UUID
    /\ accessories' = Append(accessories, Catalogue[k])
    /\ UNCHANGED <<launched, devicesInfo, cmd, lastCall, probe>>

\* the didFinishLaunching callback: new AIService(apiKey, getAllDevicesInfo()),
\* startAIService() arms the timer, startHttpServer() listens
didFinishLaunching ==
    /\ ~launched
    /\ launched' = TRUE
    /\ devicesInfo' = getAllDevicesInfo(accessories)
    /\ cmd' = [cmd EXCEPT ![Timer].pc = "armed"]
    /\ UNCHANGED <<accessories, lastCall, probe>>

\* aiService.updateDevicesInfo(devicesInfo)
updateDevicesInfo(entries) ==
    /\ launched
    /\ devicesInfo' = entries
    /\ UNCHANGED <<accessories, launched, cmd, lastCall, probe>>

\* handleUserCommand(command) up to its first await: processCommand builds
\* the prompt from devicesInfo and the command and calls createCompletion,
\* which (the environment decides) will return or hang
Start(c, command, hangs) ==
    cmd' = [cmd EXCEPT ![c] = [Idle EXCEPT !.pc = "awaiting", !.command = command,
                                          !.hung = hangs, !.prompt = devicesInfo,
                                          !.remoteCalls = 1]]

\* the timer of startAIService fires
timerFires(hangs) ==
    /\ cmd[Timer].pc = "armed"
    /\ Start(Timer, C_lights, hangs)
    /\ UNCHANGED <<accessories, launched, devicesInfo, lastCall, probe>>

\* POST /command arrives with req.body.command = command
post(c, command, hangs) ==
    /\ launched
    /\ cmd[c].pc = "idle"
    /\ \A d \in Requests : d < c => cmd[d].pc /= "idle"
    /\ Start(c, command, hangs)
    /\ UNCHANGED <<accessories, launched, devicesInfo, lastCall, probe>>

handleUserCommand_DefaultsOnReject(accs, reply) ==
    LET r == IF reply.kind = "reject" THEN Returned(Intent(T_turn_on, N_Den)) ELSE processCommand(reply) IN
    IF r.threw
    THEN [rejected |-> FALSE, outcome |-> r.error, accessories |-> accs, execCalls |-> 0]
    ELSE LET e == executeAction(accs, r.data) IN
         [rejected |-> FALSE, outcome |-> e.outcome, accessories |-> e.accessories, execCalls |-> 1]

\* handleUserCommand from the reply of the completion service on: the try
\* block runs processCommand and executeAction, the catch block logs whatever
\* either threw, and the promise of handleUserCommand resolves
handleUserCommand(accs, reply) ==
    LET r == processCommand(reply) IN
    IF r.threw
    THEN [rejected |-> FALSE, outcome |-> r.error, accessories |-> accs, execCalls |-> 0]
    ELSE LET e == executeAction(accs, r.data) IN
         [rejected |-> FALSE, outcome |-> e.outcome, accessories |-> e.accessories, execCalls |-> 1]

\* the handler of POST /command after await this.handleUserCommand(command)
httpStatus(rejected) == IF rejected THEN 500 ELSE 200

canResume_OneAtATime(c) ==
    /\ cmd[c].pc = "awaiting"
    /\ ~cmd[c].hung
    /\ \A d \in Slots : d < c => cmd[d].pc /= "awaiting"

\* the await of createCompletion of command c can resume
canResume(c) ==
    /\ cmd[c].pc = "awaiting"
    /\ ~cmd[c].hung

\* createCompletion of command c returns: the rest of handleUserCommand runs
\* and, for a request, the HTTP handler answers, all before any other callback.
\* What is kept of the command is what it came to: the reply, what was logged
\* and the status of the answer.
remoteReturns(c, reply) ==
    /\ canResume(c)
    /\ \E h \in {handleUserCommand(accessories, reply)} :
       /\ accessories' = h.accessories
       /\ cmd' = [cmd EXCEPT ![c].pc = "done", ![c].command = <<>>, ![c].prompt = <<>>, ![c].reply = reply,
                             ![c].outcome = h.outcome, ![c].execCalls = h.execCalls,
                             ![c].status = IF c = Timer THEN 0 ELSE httpStatus(h.rejected)]
    /\ UNCHANGED <<launched, devicesInfo, lastCall, probe>>

Next ==
    \/ \E k \in 1..Len(Catalogue) : configureAccessory(k)
    \/ didFinishLaunching
    \/ \E entries \in {<<>>, getAllDevicesInfo(accessories)} : updateDevicesInfo(entries)
    \/ timerFires(FALSE)
    \/ \E c \in Requests, command \in Commands : post(c, command, FALSE)
    \/ \E c \in Slots, reply \in Replies : remoteReturns(c, reply)

\* Without fairness a call that never returns is a call that has not returned
\* yet, so no call is marked as hanging here.
Spec == Init /\ [][Next]_vars

(* ------------------------ calls that never return --------------------- *)
\* The scheduling of the callbacks does not read what a reply says or which
\* accessories there are: one accessory, one command text and three replies
\* stand for all, and every call may hang.
LiveReplies == {Rejects(429), Resolves(<< Tok("word") >>), Resolves(IntentText(TStr(T_turn_on), TStr(N_DEN)))}

NextLive ==
    \/ configureAccessory(1)
    \/ didFinishLaunching
    \/ \E entries \in {<<>>, getAllDevicesInfo(accessories)} : updateDevicesInfo(entries)
    \/ \E hangs \in BOOLEAN : timerFires(hangs)
    \/ \E c \in Requests, hangs \in BOOLEAN : post(c, C_den, hangs)
    \/ \E c \in Slots, reply \in LiveReplies : remoteReturns(c, reply)

\* the event loop runs the callback of every completion call that returns
SpecLive ==
    /\ Init /\ [][NextLive]_vars
    /\ \A c \in Slots : WF_vars(\E reply \in LiveReplies : remoteReturns(c, reply))

(* ---------------------- direct calls of executeAction ------------------ *)
\* the inventories of up to MaxAccessories restored accessories
Inventories ==
    {[i \in 1..Len(ks) |-> Catalogue[ks[i]]] :
        ks \in {f \in UNION {[1..n -> 1..Len(Catalogue)] : n \in 0..MaxAccessories} :
                    \A i, j \in DOMAIN f : i /= j => f[i] /= f[j]}}

InitDispatch ==
    /\ accessories \in Inventories
    /\ launched = TRUE
    /\ devicesInfo = getAllDevicesInfo(accessories)
    /\ cmd = [c \in Slots |-> Idle]
    /\ lastCall = NoCall
    /\ probe = NoProbe

\* executeAction(actionData) called on the platform (the method is public)
directCall(actionData) ==
    \E e \in {executeAction(accessories, actionData)} :
    /\ accessories' = e.accessories
    /\ lastCall' = [actionData |-> actionData, outcome |-> e.outcome, target |-> e.target,
                    value |-> e.value,
                    before |-> IF lastCall.actionData = actionData
                               THEN [same |-> TRUE, outcome |-> lastCall.outcome, value |-> lastCall.value]
                               ELSE NoBefore]
    /\ UNCHANGED <<launched, devicesInfo, cmd, probe>>

NextDispatch == \E actionData \in Intents : directCall(actionData)

SpecDispatch == InitDispatch /\ [][NextDispatch]_vars

(* ------------------ determineValueForAction on its own ----------------- *)
InitValue ==
    /\ accessories = <<>>
    /\ launched = FALSE
    /\ devicesInfo = <<>>
    /\ cmd = [c \in Slots |-> Idle]
    /\ lastCall = NoCall
    /\ probe \in {[NoProbe EXCEPT !.action = a, !.uuid = u] : a \in ProbeTexts, u \in CharacteristicUUIDs}

determine ==
    /\ ~probe.applied
    /\ probe' = [probe EXCEPT !.value = determineValueForAction(probe.action, probe.uuid),
                              !.applied = TRUE]
    /\ UNCHANGED <<accessories, launched, devicesInfo, cmd, lastCall>>

SpecValue == InitValue /\ [][determine]_vars

(* ============================== claims ================================ *)
Finished(c) == cmd[c].pc = "done"
ServiceAt(target) == accessories[target[1]].services[target[2]]

\* the reply is a text that parses to an object with a string action and a
\* string device
ReplyIsIntent(reply) ==
    /\ reply.kind = "resolve"
    /\ reply.hasText
    /\ JSONParse(trim(reply.text)).ok
    /\ IsIntent(JSONParse(trim(reply.text)).data)

\* C1 (as claimed): every request is answered 200 only when the pipeline
\* applied a characteristic value, and 500 whenever it failed.
C1_StatusTellsOutcome ==
    \A c \in Requests :
        Finished(c) =>
            /\ cmd[c].status = 200 => cmd[c].outcome = "Applied"
            /\ cmd[c].outcome /= "Applied" => cmd[c].status = 500

\* C2 (as claimed): a request with an empty or white-space-only command ends
\* at once with EmptyCommand, and the completion service is not called for
\* it.
C2_BlankCommandIsRefused ==
    [][\A c \in Requests :
          (cmd[c].pc = "idle" /\ cmd'[c].pc /= "idle" /\ IsBlank(cmd'[c].command)) =>
              /\ cmd'[c].remoteCalls = 0
              /\ cmd'[c].outcome = "EmptyCommand"]_vars

\* C3 (as claimed): a reply text that is not valid JSON, or that lacks a
\* string action or a string device, ends the command with MalformedIntent
\* (an empty reply: with no response), and executeAction is never called
\* with it.
C3_MalformedIsNeverDispatched ==
    \A c \in Slots :
        (Finished(c) /\ cmd[c].reply.kind = "resolve" /\ ~ReplyIsIntent(cmd[c].reply)) =>
            /\ cmd[c].outcome \in {"MalformedIntent", "NoResponse"}
            /\ cmd[c].execCalls = 0

\* C4: when the completion call of a command fails, the command ends with
\* RemoteCallFailed, executeAction is never called for it and the call was
\* made exactly once.
C4_RemoteFailureEndsCommand ==
    \A c \in Slots :
        (Finished(c) /\ cmd[c].reply.kind = "reject") =>
            /\ cmd[c].outcome = "RemoteCallFailed"
            /\ cmd[c].execCalls = 0
            /\ cmd[c].remoteCalls = 1

C4_Witness ==
    \E c \in Requests : Finished(c) /\ cmd[c].reply = Rejects(429) /\ accessories /= <<>>

SameName(a, b) == toLowerCase(a) = toLowerCase(b)
SaysTurnOn(call) == call.outcome /= "" /\ call.actionData.action.s = T_turn_on

\* C5 (as claimed): a device with a Lightbulb service, named by the intent in
\* any letter case and told to "turn on", has that Lightbulb's power state
\* set to true and the dispatch succeeds, whatever the Lightbulb is called.
C5_AnyLightbulbIsTurnedOn ==
    \A i \in 1..Len(accessories) : \A j \in 1..Len(accessories[i].services) :
        ( /\ SaysTurnOn(lastCall)
          /\ SameName(accessories[i].displayName, lastCall.actionData.device.s)
          /\ accessories[i].services[j].type = "Lightbulb" ) =>
            /\ lastCall.outcome = "Applied"
            /\ accessories[i].services[j].value = JSTrue

\* C5 (amended): when the device is the first of the inventory with the
\* intent's name (in any letter case) and its first service with that name
\* is a Lightbulb, "turn on" sets that Lightbulb's power state to true and
\* the dispatch succeeds.
C5_NamedLightbulbIsTurnedOn ==
    \A i \in 1..Len(accessories) : \A j \in 1..Len(accessories[i].services) :
        ( /\ SaysTurnOn(lastCall)
          /\ SameName(accessories[i].displayName, lastCall.actionData.device.s)
          /\ \A k \in 1..(i - 1) : ~SameName(accessories[k].displayName, lastCall.actionData.device.s)
          /\ SameName(accessories[i].services[j].displayName, lastCall.actionData.device.s)
          /\ \A k \in 1..(j - 1) : ~SameName(accessories[i].services[k].displayName, lastCall.actionData.device.s)
          /\ accessories[i].services[j].type = "Lightbulb" ) =>
            /\ lastCall.outcome = "Applied"
            /\ lastCall.target = <<i, j>>
            /\ accessories[i].services[j].value = JSTrue

C5_Witness ==
    /\ SaysTurnOn(lastCall)
    /\ lastCall.actionData.device.s = N_DEN
    /\ lastCall.outcome = "Applied"
    /\ Len(accessories) = 2
    /\ ServiceAt(lastCall.target).displayName = N_Den
    /\ ServiceAt(lastCall.target).type = "Lightbulb"

\* C6: a call of executeAction that ends with DeviceNotFound,
\* ServiceNotFound, CharacteristicNotFound or ValueUndetermined leaves every
\* characteristic value of the inventory as it was.
C6_FailedDispatchWritesNothing ==
    [][lastCall'.outcome \in DispatchFailures => accessories' = accessories]_vars

C6_Witness ==
    /\ lastCall.outcome = "ValueUndetermined"
    /\ \E i \in 1..Len(accessories) : accessories[i] /= Catalogue[accessories[i].UUID]

HasOn(action) == includes(toLowerCase(action), T_turn_on) \/ includes(toLowerCase(action), T_switch_on)
HasOff(action) == includes(toLowerCase(action), T_turn_off) \/ includes(toLowerCase(action), T_switch_off)

\* C7 (as claimed): for the On characteristic the value is true if the text
\* contains "turn on" (or "switch on"), false if it contains "turn off" (or
\* "switch off"), and null if it contains neither.
C7_OnOffByPhrase ==
    (probe.applied /\ probe.uuid = UUID_On) =>
        /\ HasOn(probe.action) => probe.value = JSTrue
        /\ HasOff(probe.action) => probe.value = JSFalse
        /\ (~HasOn(probe.action) /\ ~HasOff(probe.action)) => probe.value = Null

\* C7 (amended): for the On characteristic the value is true if the text
\* contains "turn on" or "switch on" in any letter case; otherwise false if
\* it contains "turn off" or "switch off"; otherwise null.
C7_OnBeforeOff ==
    (probe.applied /\ probe.uuid = UUID_On) =>
        /\ HasOn(probe.action) => probe.value = JSTrue
        /\ (HasOff(probe.action) /\ ~HasOn(probe.action)) => probe.value = JSFalse
        /\ (~HasOn(probe.action) /\ ~HasOff(probe.action)) => probe.value = Null

C7_Witness ==
    /\ probe.applied
    /\ probe.uuid = UUID_On
    /\ probe.action = F_Off \o F_SwOn
    /\ probe.value = JSTrue

\* C8: when a valid intent is dispatched twice in a row, the second dispatch
\* succeeds like the first, derives the same value and leaves the target
\* characteristic at that value.
C8_SecondDispatchSame ==
    (lastCall.before.same /\ lastCall.before.outcome = "Applied") =>
        /\ lastCall.outcome = "Applied"
        /\ lastCall.value = lastCall.before.value
        /\ ServiceAt(lastCall.target).value = lastCall.before.value

C8_Witness ==
    /\ lastCall.before.same
    /\ lastCall.before.outcome = "Applied"
    /\ lastCall.value = JSNum(72)

\* C9: every power-state characteristic holds a boolean and every target
\* temperature an integer, and a phrase of the other kind ("turn on" at a
\* Thermostat, "set temperature to 72" at a power state) ends with
\* ValueUndetermined.
C9_ValuesKeepTheirType ==
    /\ \A i \in 1..Len(accessories) : \A j \in 1..Len(accessories[i].services) :
          LET svc == accessories[i].services[j]
              uuid == getCharacteristicForService(svc.type) IN
          /\ uuid = UUID_On => svc.value.t = "boolean" /\ svc.value.n \in {0, 1}
          /\ uuid = UUID_TargetTemperature => svc.value.t = "number" /\ svc.value.n \in Nat
    /\ (lastCall.target[2] /= 0 /\ lastCall.outcome \in {"Applied", "ValueUndetermined"}) =>
          LET uuid == getCharacteristicForService(ServiceAt(lastCall.target).type)
              action == lastCall.actionData.action.s IN
          /\ (uuid = UUID_TargetTemperature /\ action \in {T_turn_on, A_TurnOn, T_switch_off})
                => lastCall.outcome = "ValueUndetermined"
          /\ (uuid = UUID_On /\ action = A_set72) => lastCall.outcome = "ValueUndetermined"

C9_Witness ==
    /\ lastCall.outcome = "ValueUndetermined"
    /\ lastCall.actionData.action.s = A_TurnOn
    /\ ServiceAt(lastCall.target).type = "Thermostat"
    /\ ServiceAt(lastCall.target).value = JSNum(7)

\* C10: a command whose completion call returns runs to its end whatever the
\* other commands wait for, and while commands are in flight the devices
\* info can be replaced and a further request can start.
C10_HungCallBlocksNoOther ==
    /\ \A c \in Slots : (cmd[c].pc = "awaiting" /\ ~cmd[c].hung) ~> Finished(c)
    /\ [](launched => ENABLED updateDevicesInfo(<<>>))
    /\ [](\A c \in Requests :
            (cmd[c].pc = "idle" /\ launched /\ \A d \in Requests : d < c => cmd[d].pc /= "idle")
                => ENABLED post(c, C_den, FALSE))

C10_Witness ==
    \E c, d \in Slots :
        /\ cmd[c].pc = "awaiting" /\ cmd[c].hung
        /\ Finished(d) /\ cmd[d].outcome = "Applied"
        /\ devicesInfo /= cmd[c].prompt

====
